---- MODULE Spec2Model ----
(***************************************************************************)
(* RedIoT_21sep: two ESP32 nodes on a painlessMesh network.                *)
(*   Node1 (sensor)   reads a DHT11, broadcasts a Reading every 5 s until  *)
(*                    any message is received, then deep-sleeps.           *)
(*   Node2 (actuator) waits for a message, drives an RGB LED from the      *)
(*                    received temperature, broadcasts a Decision and      *)
(*                    deep-sleeps.                                         *)
(* Both keep hour/minut/sec and the flag yettimed in RTC memory, which     *)
(* survives deep sleep and is cleared by a power loss.                     *)
(*                                                                         *)
(* Spec is one node in a mesh whose other members may send any text (the   *)
(* peer's messages among them); SpecPair is the two nodes together.        *)
(* SpecNoNet is Spec with the fairness of the program's own steps and a    *)
(* WiFi network that need not be reached; SpecTimed is the two nodes with  *)
(* time in ticks of 0.1 s (sleep timers, message latency); SpecRounds is   *)
(* the two nodes with the fairness under which rounds make progress.       *)
(*                                                                         *)
(* Numbers: a temperature is an integer count of 2^-21 degC, a grid on     *)
(* which every value used here is an exact double.  A float in [16,32)     *)
(* has a spacing of 2^-19 degC = FloatStep grid units.                     *)
(***************************************************************************)
EXTENDS Integers, Sequences, FiniteSets, TLC

\* ------------------------------------------------------------------ bounds
MaxSends == 2       \* Readings the sensor task may fire in one wake cycle
MaxRecv == 2        \* messages the actuator may receive in one wake cycle
MaxInFlight == 1    \* messages in flight in the mesh at one time
MaxWifiPolls == 1   \* counted iterations of the WiFi wait loop
MaxLatency == 2     \* ticks a message may stay in flight when time is modelled

\* --------------------------------------------------------------- constants
Node1 == 1
Node2 == 2
Nodes == {Node1, Node2}
Peer(n) == IF n = Node1 THEN Node2 ELSE Node1

GridPerDeg == 2097152
FloatStep == 4
Threshold == 29
\* both nodes armed with the same sleep time
TimeToSleepSame(n) == 5000000

TIME_TO_SLEEP_US(n) == IF n = Node1 THEN 5000000 ELSE 5100000

\* the unit of modelled time: 0.1 s, the difference of the two sleep times
TickUs == 100000

\* ------------------------------------------------------------ float values
Num(k) == [nan |-> FALSE, v |-> k]
NaN == [nan |-> TRUE, v |-> 0]
Zero == Num(0)

T29 == Threshold * GridPerDeg
\* 28.999 and 29.001 degC rounded to the grid
T28_999 == 60815311
T29_001 == 60819505
T25 == 25 * GridPerDeg
T31_5 == 66060288

\* double -> float conversion (round to nearest, ties to even), exact for
\* magnitudes in [16,32) and for grid values that already are floats
ToFloat(d) ==
  IF d.nan THEN d
  ELSE LET r == d.v % FloatStep
           lo == d.v - r
           hi == lo + FloatStep
       IN  Num(CASE r = 0 -> d.v
                 [] r = 1 -> lo
                 [] r = 3 -> hi
                 [] OTHER -> IF (lo \div FloatStep) % 2 = 0 THEN lo ELSE hi)

\* ---------------------------------------------------------------- strftime
Digit(i) == CASE i = 0 -> "0" [] i = 1 -> "1" [] i = 2 -> "2" [] i = 3 -> "3"
              [] i = 4 -> "4" [] i = 5 -> "5" [] i = 6 -> "6" [] i = 7 -> "7"
              [] i = 8 -> "8" [] OTHER -> "9"

\* the two-character strings of decimal digits
TwoDigits == { Digit(a) \o Digit(b) : a, b \in 0..9 }

\* a formatting without the leading zero
Strftime2NoPad(i) == IF i < 10 THEN Digit(i) ELSE Digit(i \div 10) \o Digit(i % 10)

\* strftime(buf, 3, "%H" | "%M" | "%S", &timeinfo): two digits, zero padded
Strftime2(i) == Digit(i \div 10) \o Digit(i % 10)

\* results of getLocalTime(&timeinfo): failure, or a broken-down time
Tms == { <<9, 15, 42>>, <<14, 30, 0>> }
NoTime == [ok |-> FALSE, tm |-> <<0, 0, 0>>]
TimeOutcomes == {NoTime} \cup { [ok |-> TRUE, tm |-> t] : t \in Tms }

\* a printLocalTime that writes the RTC fields before testing the result
PrintLocalTimeClearsOnFail(clk, o) ==
  IF ~o.ok THEN [hour |-> "", minut |-> "", sec |-> ""]
  ELSE [hour |-> Strftime2(o.tm[1]), minut |-> Strftime2(o.tm[2]),
        sec |-> Strftime2(o.tm[3])]

\* a printLocalTime that leaves out the strftime of the seconds
PrintLocalTimeNoSec(clk, o) ==
  IF ~o.ok THEN clk
  ELSE [hour |-> Strftime2(o.tm[1]), minut |-> Strftime2(o.tm[2]),
        sec |-> clk.sec]

\* printLocalTime(): on failure return before touching the RTC fields
PrintLocalTime(clk, o) ==
  IF ~o.ok THEN clk
  ELSE [hour |-> Strftime2(o.tm[1]), minut |-> Strftime2(o.tm[2]),
        sec |-> Strftime2(o.tm[3])]

\* ---------------------------------------------------------------- messages
\* A JSON text is the set of keys it has and their values; a text that does
\* not parse has no keys (JSON.parse yields an undefined object).
Msg(has, node, temp, hum, color, h, m, s) ==
  [has |-> has, node |-> node, temp |-> temp, hum |-> hum, color |-> color,
   hour |-> h, min |-> m, sec |-> s]

ReadingKeys == {"node", "temp", "hum", "hour", "min", "sec"}
DecisionKeys == {"node", "color", "hour", "min", "sec"}

\* a decoding that yields 0 for a key that is absent or not a number
DecodeDoubleZero(m, key) ==
  IF key \in m.has /\ ~m[key].nan THEN m[key] ELSE Zero

\* (double) myObject[key]: the number, or NaN when the key is absent or the
\* value is not a number (a NaN is written as null by JSON.stringify)
DecodeDouble(m, key) ==
  IF key \in m.has /\ ~m[key].nan THEN m[key] ELSE NaN

\* DHT11 samples (temperature, humidity); a failed read yields NaN for both
Hum40 == Num(40 * GridPerDeg)
DhtSamples == { <<NaN, NaN>>, <<Num(T25), Hum40>>, <<Num(T31_5), Hum40>> }

\* texts that reach a node from the mesh
Garbage == Msg({}, 0, Zero, Zero, "", "", "", "")
NoTemp == Msg(ReadingKeys \ {"temp"}, 3, Zero, Hum40, "", "12", "00", "00")
Foreign(t) == Msg(ReadingKeys, 3, Num(t), Hum40, "", "12", "00", "00")
Blue == Msg(DecisionKeys, 3, Zero, Zero, "Blue", "12", "00", "00")
NaNReading == Msg(ReadingKeys, 1, NaN, NaN, "", "", "", "")
Decision(c, h) == Msg(DecisionKeys, 2, Zero, Zero, c, h, "15", "42")
RecvTemps == ((T29 - 4)..(T29 + 8)) \cup {T25, T28_999, T29_001, T31_5}

\* what the other members of the mesh may send to node n
MeshMsgs(n) ==
  IF n = Node1
  THEN {Garbage, Blue} \cup { Decision(c, h) : c \in {"Red", "Green"},
                                               h \in {"", "09"} }
  ELSE {Garbage, NoTemp, Blue, NaNReading} \cup { Foreign(t) : t \in RecvTemps }

\* the smaller sets used when the two nodes run together
PairTimeOutcomes == {NoTime, [ok |-> TRUE, tm |-> <<9, 15, 42>>]}
PairSamples == { <<NaN, NaN>>, <<Num(T31_5), Hum40>> }
PairMsgs == {Garbage}

\* the sample used where only the progress of the rounds is looked at
RoundSamples == { <<Num(T31_5), Hum40>> }

\* ------------------------------------------------------------------- state
VARIABLES
  pc,           \* per node: "off", "boot", "wifi" (wait loop), "run" (loop()), "asleep"
  hour, minut, sec, yettimed,   \* RTC_DATA_ATTR fields of each node
  wokeFromSleep, \* the boot in progress is a timer wake, not a power-on
  wakeTimer,    \* microseconds armed by esp_sleep_enable_timer_wakeup, 0 if none
  polls,        \* iterations of while (WiFi.status() != WL_CONNECTED), counted
                \* modulo MaxWifiPolls + 1
  timeinfo,     \* result of the last getLocalTime(&timeinfo) of this boot
  taskEnabled,  \* taskSendMessage is enabled
  readings,     \* <<>> or the last text handed to mesh.sendBroadcast
  temp, hum, Color, led,        \* Node2 globals and the RGB outputs
  inbox,        \* messages in flight towards each node
  sent, rcvd,   \* broadcasts and receive callbacks since the last boot
  sleepLeft,    \* ticks until the wake timer of a sleeping node expires
  age           \* ticks each message in inbox has been in flight

rtc == <<hour, minut, sec, yettimed>>
actuator == <<temp, hum, Color, led>>
vars == <<pc, hour, minut, sec, yettimed, wokeFromSleep, wakeTimer, polls,
          timeinfo, taskEnabled, readings, temp, hum, Color, led, inbox,
          sent, rcvd, sleepLeft, age>>

\* time is kept in SpecTimed only; elsewhere these two stay as they start
clocks == <<sleepLeft, age>>

Clock(n) == [hour |-> hour[n], minut |-> minut[n], sec |-> sec[n]]

\* the nodes in on have just been powered on, the other is not in the mesh
InitWith(on) ==
  /\ pc = [n \in Nodes |-> IF n \in on THEN "boot" ELSE "off"]
  /\ hour = [n \in Nodes |-> ""]
  /\ minut = [n \in Nodes |-> ""]
  /\ sec = [n \in Nodes |-> ""]
  /\ yettimed = [n \in Nodes |-> FALSE]
  /\ wokeFromSleep = [n \in Nodes |-> FALSE]
  /\ wakeTimer = [n \in Nodes |-> 0]
  /\ polls = [n \in Nodes |-> 0]
  /\ timeinfo = [n \in Nodes |-> NoTime]
  /\ taskEnabled = [n \in Nodes |-> FALSE]
  /\ readings = [n \in Nodes |-> <<>>]
  /\ temp = Zero
  /\ hum = Zero
  /\ Color = ""
  /\ led = <<0, 0, 0>>
  /\ inbox = [n \in Nodes |-> <<>>]
  /\ sent = [n \in Nodes |-> 0]
  /\ rcvd = [n \in Nodes |-> 0]
  /\ sleepLeft = [n \in Nodes |-> 0]
  /\ age = [n \in Nodes |-> <<>>]

Init == \E r \in Nodes : InitWith({r})

InitPair == InitWith(Nodes)

\* ------------------------------------------------------------------ Node2
\* condition(float temp, int hum): the double argument is narrowed to float;
\* hum is converted to int and not used
Condition(t, h) ==
  LET f == ToFloat(t)
  IN  IF ~f.nan /\ f.v > T29
      THEN [Color |-> "Red", led |-> <<255, 0, 0>>]
      ELSE [Color |-> "Green", led |-> <<0, 255, 0>>]

\* ------------------------------------------------------------- transport
InFlight(inb) == Len(inb[Node1]) + Len(inb[Node2])

\* mesh.sendBroadcast(msg) by node n: the text reaches the peer's receive
\* queue only if the peer is running the mesh, and may be lost
Broadcast(n, m, inb) ==
  LET p == Peer(n)
  IN  {inb} \cup
      (IF pc[p] = "run" /\ InFlight(inb) < MaxInFlight
       THEN {[inb EXCEPT ![p] = Append(@, m)]} ELSE {})

\* ------------------------------------------------------------ shared steps
\* a sleep path that does not set yettimed
MarkTimedSkipped(y, n) == y

\* yettimed = 1, the statement before esp_deep_sleep_start()
MarkTimed(y, n) == [y EXCEPT ![n] = TRUE]

\* a setup() that enables the task on both nodes
TaskAfterSetupBoth(n) == TRUE

\* a setup() that enables the task on neither node
TaskAfterSetupNone(n) == FALSE

\* taskSendMessage.enable() at the end of setup(): Node1 only
TaskAfterSetup(n) == n = Node1

\* setup() up to WiFi.begin when yettimed == 0; the wait loop follows
SetupCold(n) ==
  /\ pc[n] = "boot"
  /\ yettimed[n] = FALSE
  /\ pc' = [pc EXCEPT ![n] = "wifi"]
  /\ polls' = [polls EXCEPT ![n] = 0]
  /\ UNCHANGED <<rtc, wokeFromSleep, wakeTimer, timeinfo, taskEnabled,
                 readings, actuator, inbox, sent, rcvd>>

\* a wait loop that gives up after the counted iterations and goes on with
\* the rest of setup() without a connection
WifiPollTimesOut(n) ==
  /\ pc[n] = "wifi"
  /\ polls[n] < MaxWifiPolls
  /\ polls' = [polls EXCEPT ![n] = @ + 1]
  /\ pc' = [pc EXCEPT ![n] = IF polls[n] + 1 = MaxWifiPolls THEN "run" ELSE "wifi"]
  /\ wakeTimer' = [wakeTimer EXCEPT ![n] =
                     IF polls[n] + 1 = MaxWifiPolls THEN TIME_TO_SLEEP_US(n) ELSE @]
  /\ taskEnabled' = [taskEnabled EXCEPT ![n] =
                       polls[n] + 1 = MaxWifiPolls /\ n = Node1]
  /\ UNCHANGED <<rtc, wokeFromSleep, timeinfo, readings, actuator, inbox,
                 sent, rcvd>>

\* one more delay(500) with WiFi.status() != WL_CONNECTED; the loop has no
\* exit but the connection, so the iterations are counted modulo
\* MaxWifiPolls + 1
WifiPoll(n) ==
  /\ pc[n] = "wifi"
  /\ polls' = [polls EXCEPT ![n] = (@ + 1) % (MaxWifiPolls + 1)]
  /\ UNCHANGED <<pc, rtc, wokeFromSleep, wakeTimer, timeinfo, taskEnabled,
                 readings, actuator, inbox, sent, rcvd>>

\* a setup() that starts the mesh without arming the wake timer
SetupRestNoTimer(n, o) ==
  LET clk == PrintLocalTime(Clock(n), o)
  IN  /\ hour' = [hour EXCEPT ![n] = clk.hour]
      /\ minut' = [minut EXCEPT ![n] = clk.minut]
      /\ sec' = [sec EXCEPT ![n] = clk.sec]
      /\ timeinfo' = [timeinfo EXCEPT ![n] = o]
      /\ taskEnabled' = [taskEnabled EXCEPT ![n] = TaskAfterSetup(n)]
      /\ pc' = [pc EXCEPT ![n] = "run"]
      /\ UNCHANGED <<yettimed, wokeFromSleep, wakeTimer, polls, readings,
                     actuator, inbox, sent, rcvd>>

\* the rest of setup(): configTime, printLocalTime, arm the wake timer,
\* start the mesh, add the task (and enable it on Node1)
SetupRest(n, o) ==
  LET clk == PrintLocalTime(Clock(n), o)
  IN  /\ hour' = [hour EXCEPT ![n] = clk.hour]
      /\ minut' = [minut EXCEPT ![n] = clk.minut]
      /\ sec' = [sec EXCEPT ![n] = clk.sec]
      /\ timeinfo' = [timeinfo EXCEPT ![n] = o]
      /\ wakeTimer' = [wakeTimer EXCEPT ![n] = TIME_TO_SLEEP_US(n)]
      /\ taskEnabled' = [taskEnabled EXCEPT ![n] = TaskAfterSetup(n)]
      /\ pc' = [pc EXCEPT ![n] = "run"]
      /\ UNCHANGED <<yettimed, wokeFromSleep, polls, readings, actuator,
                     inbox, sent, rcvd>>

\* WiFi connected: leave the wait loop and finish setup()
SetupSync(n, o) ==
  /\ pc[n] = "wifi"
  /\ SetupRest(n, o)

\* setup() when yettimed == 1: no WiFi, configTime and printLocalTime only
SetupReuse(n, o) ==
  /\ pc[n] = "boot"
  /\ yettimed[n] = TRUE
  /\ SetupRest(n, o)

\* a wake timer that also restarts a node that is awake
WakeWhileAwake(n) ==
  /\ pc[n] \in {"asleep", "run"}
  /\ wakeTimer[n] > 0
  /\ pc' = [pc EXCEPT ![n] = "boot"]
  /\ wokeFromSleep' = [wokeFromSleep EXCEPT ![n] = TRUE]
  /\ wakeTimer' = [wakeTimer EXCEPT ![n] = 0]
  /\ polls' = [polls EXCEPT ![n] = 0]
  /\ timeinfo' = [timeinfo EXCEPT ![n] = NoTime]
  /\ taskEnabled' = [taskEnabled EXCEPT ![n] = FALSE]
  /\ readings' = [readings EXCEPT ![n] = <<>>]
  /\ inbox' = [inbox EXCEPT ![n] = <<>>]
  /\ sent' = [sent EXCEPT ![n] = 0]
  /\ rcvd' = [rcvd EXCEPT ![n] = 0]
  /\ IF n = Node2
     THEN temp' = Zero /\ hum' = Zero /\ Color' = "" /\ led' = <<0, 0, 0>>
     ELSE UNCHANGED actuator
  /\ UNCHANGED rtc

\* the wake timer expires during deep sleep: the chip boots, RTC memory kept
Wake(n) ==
  /\ pc[n] = "asleep"
  /\ wakeTimer[n] > 0
  /\ pc' = [pc EXCEPT ![n] = "boot"]
  /\ wokeFromSleep' = [wokeFromSleep EXCEPT ![n] = TRUE]
  /\ wakeTimer' = [wakeTimer EXCEPT ![n] = 0]
  /\ polls' = [polls EXCEPT ![n] = 0]
  /\ timeinfo' = [timeinfo EXCEPT ![n] = NoTime]
  /\ taskEnabled' = [taskEnabled EXCEPT ![n] = FALSE]
  /\ readings' = [readings EXCEPT ![n] = <<>>]
  /\ inbox' = [inbox EXCEPT ![n] = <<>>]
  /\ sent' = [sent EXCEPT ![n] = 0]
  /\ rcvd' = [rcvd EXCEPT ![n] = 0]
  /\ IF n = Node2
     THEN temp' = Zero /\ hum' = Zero /\ Color' = "" /\ led' = <<0, 0, 0>>
     ELSE UNCHANGED actuator
  /\ UNCHANGED rtc

\* node n loses power and is switched on again: its RTC memory is zeroed
\* like every other memory
PowerLoss(n) ==
  /\ pc[n] # "off"
  /\ pc' = [pc EXCEPT ![n] = "boot"]
  /\ hour' = [hour EXCEPT ![n] = ""]
  /\ minut' = [minut EXCEPT ![n] = ""]
  /\ sec' = [sec EXCEPT ![n] = ""]
  /\ yettimed' = [yettimed EXCEPT ![n] = FALSE]
  /\ wokeFromSleep' = [wokeFromSleep EXCEPT ![n] = FALSE]
  /\ wakeTimer' = [wakeTimer EXCEPT ![n] = 0]
  /\ polls' = [polls EXCEPT ![n] = 0]
  /\ timeinfo' = [timeinfo EXCEPT ![n] = NoTime]
  /\ taskEnabled' = [taskEnabled EXCEPT ![n] = FALSE]
  /\ readings' = [readings EXCEPT ![n] = <<>>]
  /\ inbox' = [inbox EXCEPT ![n] = <<>>]
  /\ sent' = [sent EXCEPT ![n] = 0]
  /\ rcvd' = [rcvd EXCEPT ![n] = 0]
  /\ IF n = Node2
     THEN temp' = Zero /\ hum' = Zero /\ Color' = "" /\ led' = <<0, 0, 0>>
     ELSE UNCHANGED actuator

\* ------------------------------------------------------------------ Node1
\* a getReadings that leaves the hour out of the text
N1GetReadingsNoHour(clk, s) ==
  Msg(ReadingKeys, Node1, s[1], s[2], "", "", clk.minut, clk.sec)

\* a getReadings that writes 0 for a failed read
N1GetReadingsNaNAsZero(clk, s) ==
  Msg(ReadingKeys, Node1, IF s[1].nan THEN Zero ELSE s[1],
      IF s[2].nan THEN Zero ELSE s[2], "", clk.hour, clk.minut, clk.sec)

\* getReadings() of Node1 after printLocalTime: the JSON text
N1GetReadings(clk, s) ==
  Msg(ReadingKeys, Node1, s[1], s[2], "", clk.hour, clk.minut, clk.sec)

\* sendMessage() of Node1, run by taskSendMessage while it is enabled
N1SendMessage(o, s) ==
  /\ pc[Node1] = "run"
  /\ taskEnabled[Node1]
  /\ sent[Node1] < MaxSends
  /\ LET clk == PrintLocalTime(Clock(Node1), o)
         msg == N1GetReadings(clk, s)
     IN  /\ hour' = [hour EXCEPT ![Node1] = clk.hour]
         /\ minut' = [minut EXCEPT ![Node1] = clk.minut]
         /\ sec' = [sec EXCEPT ![Node1] = clk.sec]
         /\ timeinfo' = [timeinfo EXCEPT ![Node1] = o]
         /\ readings' = [readings EXCEPT ![Node1] = <<msg>>]
         /\ inbox' \in Broadcast(Node1, msg, inbox)
  /\ sent' = [sent EXCEPT ![Node1] = @ + 1]
  /\ UNCHANGED <<pc, yettimed, wokeFromSleep, wakeTimer, polls, taskEnabled,
                 actuator, rcvd>>

\* sendMessage() of Node1 once MaxSends Readings were counted: the task goes
\* on firing every 5 s, the count stays at its bound
N1SendAgain(o, s) ==
  /\ pc[Node1] = "run"
  /\ taskEnabled[Node1]
  /\ sent[Node1] = MaxSends
  /\ LET clk == PrintLocalTime(Clock(Node1), o)
         msg == N1GetReadings(clk, s)
     IN  /\ hour' = [hour EXCEPT ![Node1] = clk.hour]
         /\ minut' = [minut EXCEPT ![Node1] = clk.minut]
         /\ sec' = [sec EXCEPT ![Node1] = clk.sec]
         /\ timeinfo' = [timeinfo EXCEPT ![Node1] = o]
         /\ readings' = [readings EXCEPT ![Node1] = <<msg>>]
         /\ inbox' \in Broadcast(Node1, msg, inbox)
  /\ UNCHANGED <<pc, yettimed, wokeFromSleep, wakeTimer, polls, taskEnabled,
                 actuator, sent, rcvd>>

\* a receive callback that only prints the message
N1ReceivedCallbackPrintOnly ==
  /\ pc[Node1] = "run"
  /\ inbox[Node1] # <<>>
  /\ inbox' = [inbox EXCEPT ![Node1] = Tail(@)]
  /\ rcvd' = [rcvd EXCEPT ![Node1] = @ + 1]
  /\ UNCHANGED <<pc, rtc, wokeFromSleep, wakeTimer, polls, timeinfo,
                 taskEnabled, readings, actuator, sent>>

\* receivedCallback() of Node1: the fields read from the message go to
\* locals that are printed only; then disable, yettimed = 1, deep sleep
N1ReceivedCallback ==
  /\ pc[Node1] = "run"
  /\ inbox[Node1] # <<>>
  /\ taskEnabled' = [taskEnabled EXCEPT ![Node1] = FALSE]
  /\ yettimed' = MarkTimed(yettimed, Node1)
  /\ pc' = [pc EXCEPT ![Node1] = "asleep"]
  /\ inbox' = [inbox EXCEPT ![Node1] = <<>>]
  /\ rcvd' = [rcvd EXCEPT ![Node1] = @ + 1]
  /\ UNCHANGED <<hour, minut, sec, wokeFromSleep, wakeTimer, polls, timeinfo,
                 readings, actuator, sent>>

\* ------------------------------------------------------------------ Node2
\* getReadings() of Node2 after printLocalTime: the JSON text
N2GetReadings(clk, color) ==
  Msg(DecisionKeys, Node2, Zero, Zero, color, clk.hour, clk.minut, clk.sec)

\* a receive callback that decides on the first message of a cycle only
N2ReceivedCallbackFirstOnly ==
  /\ pc[Node2] = "run"
  /\ inbox[Node2] # <<>>
  /\ rcvd[Node2] < MaxRecv
  /\ LET m == Head(inbox[Node2])
         t == DecodeDouble(m, "temp")
         h == DecodeDouble(m, "hum")
         c == Condition(t, h)
     IN  /\ temp' = t
         /\ hum' = h
         /\ Color' = IF rcvd[Node2] = 0 THEN c.Color ELSE Color
         /\ led' = IF rcvd[Node2] = 0 THEN c.led ELSE led
  /\ taskEnabled' = [taskEnabled EXCEPT ![Node2] = TRUE]
  /\ inbox' = [inbox EXCEPT ![Node2] = Tail(@)]
  /\ rcvd' = [rcvd EXCEPT ![Node2] = @ + 1]
  /\ UNCHANGED <<pc, rtc, wokeFromSleep, wakeTimer, polls, timeinfo,
                 readings, sent>>

\* a receive callback that takes the time fields of the message as its own
N2ReceivedCallbackAdoptsTime ==
  /\ pc[Node2] = "run"
  /\ inbox[Node2] # <<>>
  /\ rcvd[Node2] < MaxRecv
  /\ LET m == Head(inbox[Node2])
         t == DecodeDouble(m, "temp")
         h == DecodeDouble(m, "hum")
         c == Condition(t, h)
     IN  /\ temp' = t
         /\ hum' = h
         /\ Color' = c.Color
         /\ led' = c.led
         /\ hour' = [hour EXCEPT ![Node2] = m.hour]
         /\ minut' = [minut EXCEPT ![Node2] = m.min]
         /\ sec' = [sec EXCEPT ![Node2] = m.sec]
  /\ taskEnabled' = [taskEnabled EXCEPT ![Node2] = TRUE]
  /\ inbox' = [inbox EXCEPT ![Node2] = Tail(@)]
  /\ rcvd' = [rcvd EXCEPT ![Node2] = @ + 1]
  /\ UNCHANGED <<pc, yettimed, wokeFromSleep, wakeTimer, polls, timeinfo,
                 readings, sent>>

\* receivedCallback() of Node2: temp and hum from the message, condition(),
\* taskSendMessage.enable()
N2ReceivedCallback ==
  /\ pc[Node2] = "run"
  /\ inbox[Node2] # <<>>
  /\ rcvd[Node2] < MaxRecv
  /\ LET m == Head(inbox[Node2])
         t == DecodeDouble(m, "temp")
         h == DecodeDouble(m, "hum")
         c == Condition(t, h)
     IN  /\ temp' = t
         /\ hum' = h
         /\ Color' = c.Color
         /\ led' = c.led
  /\ taskEnabled' = [taskEnabled EXCEPT ![Node2] = TRUE]
  /\ inbox' = [inbox EXCEPT ![Node2] = Tail(@)]
  /\ rcvd' = [rcvd EXCEPT ![Node2] = @ + 1]
  /\ UNCHANGED <<pc, rtc, wokeFromSleep, wakeTimer, polls, timeinfo,
                 readings, sent>>

\* a sendMessage that leaves the task running and does not sleep
N2SendMessageNoSleep(o) ==
  /\ pc[Node2] = "run"
  /\ taskEnabled[Node2]
  /\ sent[Node2] < MaxSends
  /\ LET clk == PrintLocalTime(Clock(Node2), o)
         msg == N2GetReadings(clk, Color)
     IN  /\ hour' = [hour EXCEPT ![Node2] = clk.hour]
         /\ minut' = [minut EXCEPT ![Node2] = clk.minut]
         /\ sec' = [sec EXCEPT ![Node2] = clk.sec]
         /\ timeinfo' = [timeinfo EXCEPT ![Node2] = o]
         /\ readings' = [readings EXCEPT ![Node2] = <<msg>>]
         /\ inbox' \in Broadcast(Node2, msg, inbox)
  /\ sent' = [sent EXCEPT ![Node2] = @ + 1]
  /\ UNCHANGED <<pc, yettimed, wokeFromSleep, wakeTimer, polls, taskEnabled,
                 actuator, rcvd>>

\* sendMessage() of Node2, run by taskSendMessage once it is enabled:
\* broadcast, disable, yettimed = 1, deep sleep
N2SendMessage(o) ==
  /\ pc[Node2] = "run"
  /\ taskEnabled[Node2]
  /\ LET clk == PrintLocalTime(Clock(Node2), o)
         msg == N2GetReadings(clk, Color)
     IN  /\ hour' = [hour EXCEPT ![Node2] = clk.hour]
         /\ minut' = [minut EXCEPT ![Node2] = clk.minut]
         /\ sec' = [sec EXCEPT ![Node2] = clk.sec]
         /\ timeinfo' = [timeinfo EXCEPT ![Node2] = o]
         /\ readings' = [readings EXCEPT ![Node2] = <<msg>>]
         /\ \E inb \in Broadcast(Node2, msg, inbox) :
              inbox' = [inb EXCEPT ![Node2] = <<>>]
  /\ sent' = [sent EXCEPT ![Node2] = @ + 1]
  /\ taskEnabled' = [taskEnabled EXCEPT ![Node2] = FALSE]
  /\ yettimed' = MarkTimed(yettimed, Node2)
  /\ pc' = [pc EXCEPT ![Node2] = "asleep"]
  /\ temp' = Zero /\ hum' = Zero /\ Color' = "" /\ led' = <<0, 0, 0>>
  /\ UNCHANGED <<wokeFromSleep, wakeTimer, polls, rcvd>>

\* ------------------------------------------------------------- transport
\* a message in flight is lost
Lose(n) ==
  /\ inbox[n] # <<>>
  /\ inbox' = [inbox EXCEPT ![n] = Tail(@)]
  /\ UNCHANGED <<pc, rtc, wokeFromSleep, wakeTimer, polls, timeinfo,
                 taskEnabled, readings, actuator, sent, rcvd>>

\* another member of the mesh broadcasts a text that reaches node n
Inject(n, m) ==
  /\ pc[n] = "run"
  /\ InFlight(inbox) < MaxInFlight
  /\ inbox' = [inbox EXCEPT ![n] = Append(@, m)]
  /\ UNCHANGED <<pc, rtc, wokeFromSleep, wakeTimer, polls, timeinfo,
                 taskEnabled, readings, actuator, sent, rcvd>>

Next ==
  \/ UNCHANGED clocks /\ \E n \in Nodes : SetupCold(n)
  \/ UNCHANGED clocks /\ \E n \in Nodes : WifiPoll(n)
  \/ UNCHANGED clocks /\ \E n \in Nodes : \E o \in TimeOutcomes : SetupSync(n, o)
  \/ UNCHANGED clocks /\ \E n \in Nodes : \E o \in TimeOutcomes : SetupReuse(n, o)
  \/ UNCHANGED clocks /\ \E n \in Nodes : Wake(n)
  \/ UNCHANGED clocks /\ \E n \in Nodes : PowerLoss(n)
  \/ UNCHANGED clocks /\ \E o \in TimeOutcomes : \E s \in DhtSamples : N1SendMessage(o, s)
  \/ UNCHANGED clocks /\ N1ReceivedCallback
  \/ UNCHANGED clocks /\ N2ReceivedCallback
  \/ UNCHANGED clocks /\ \E o \in TimeOutcomes : N2SendMessage(o)
  \/ UNCHANGED clocks /\ \E n \in Nodes : Lose(n)
  \/ UNCHANGED clocks /\ \E n \in Nodes : \E m \in MeshMsgs(n) : Inject(n, m)

Spec == Init /\ [][Next]_vars

NextPair ==
  \/ UNCHANGED clocks /\ \E n \in Nodes : SetupCold(n)
  \/ UNCHANGED clocks /\ \E n \in Nodes : WifiPoll(n)
  \/ UNCHANGED clocks /\ \E n \in Nodes : \E o \in PairTimeOutcomes : SetupSync(n, o)
  \/ UNCHANGED clocks /\ \E n \in Nodes : \E o \in PairTimeOutcomes : SetupReuse(n, o)
  \/ UNCHANGED clocks /\ \E n \in Nodes : Wake(n)
  \/ UNCHANGED clocks /\ \E n \in Nodes : PowerLoss(n)
  \/ UNCHANGED clocks /\ \E o \in PairTimeOutcomes : \E s \in PairSamples : N1SendMessage(o, s)
  \/ UNCHANGED clocks /\ N1ReceivedCallback
  \/ UNCHANGED clocks /\ N2ReceivedCallback
  \/ UNCHANGED clocks /\ \E o \in PairTimeOutcomes : N2SendMessage(o)
  \/ UNCHANGED clocks /\ \E n \in Nodes : Lose(n)
  \/ UNCHANGED clocks /\ \E n \in Nodes : \E m \in PairMsgs : Inject(n, m)

SpecPair == InitPair /\ [][NextPair]_vars

\* ------------------------------------------------------------------- time
\* the two nodes with time in ticks of TickUs: a deep sleep lasts the armed
\* time, a message is delivered or lost within MaxLatency ticks, and every
\* other step takes no time of its own (time may pass between any two).
\* What a step of the program does to the clocks: a node that enters deep
\* sleep starts its armed timer, a message handed to the mesh starts at age 0.
ClocksFollow ==
  /\ sleepLeft' = [n \in Nodes |->
                     IF pc'[n] # "asleep" THEN 0
                     ELSE IF pc[n] = "asleep" THEN sleepLeft[n]
                     ELSE wakeTimer[n] \div TickUs]
  /\ age' = [n \in Nodes |->
               IF inbox'[n] = inbox[n] THEN age[n]
               ELSE IF inbox'[n] = <<>> THEN <<>>
               ELSE IF Len(inbox'[n]) > Len(inbox[n]) THEN Append(age[n], 0)
               ELSE Tail(age[n])]

\* one tick passes: not past the expiry of a wake timer, which wakes the
\* node at once, and not past the latest delivery of a message
Tick ==
  /\ \A n \in Nodes : pc[n] = "asleep" => sleepLeft[n] > 0
  /\ \A n \in Nodes : \A i \in 1..Len(age[n]) : age[n][i] < MaxLatency
  /\ \E n \in Nodes : pc[n] = "asleep" \/ inbox[n] # <<>>
  /\ sleepLeft' = [n \in Nodes |->
                     IF pc[n] = "asleep" THEN sleepLeft[n] - 1 ELSE 0]
  /\ age' = [n \in Nodes |->
               IF age[n] = <<>> THEN <<>>
               ELSE [i \in 1..Len(age[n]) |-> age[n][i] + 1]]
  /\ UNCHANGED <<pc, rtc, wokeFromSleep, wakeTimer, polls, timeinfo,
                 taskEnabled, readings, actuator, inbox, sent, rcvd>>

\* the wake timer of a sleeping node expires
WakeOnTime(n) ==
  /\ sleepLeft[n] = 0
  /\ Wake(n)

NextTimed ==
  \/ Tick
  \/ (\E n \in Nodes : SetupCold(n)) /\ ClocksFollow
  \/ (\E n \in Nodes : \E o \in PairTimeOutcomes : SetupSync(n, o)) /\ ClocksFollow
  \/ (\E n \in Nodes : \E o \in PairTimeOutcomes : SetupReuse(n, o)) /\ ClocksFollow
  \/ (\E n \in Nodes : WakeOnTime(n)) /\ ClocksFollow
  \/ (\E o \in PairTimeOutcomes : \E s \in PairSamples : N1SendMessage(o, s)) /\ ClocksFollow
  \/ N1ReceivedCallback /\ ClocksFollow
  \/ N2ReceivedCallback /\ ClocksFollow
  \/ (\E o \in PairTimeOutcomes : N2SendMessage(o)) /\ ClocksFollow
  \/ (\E n \in Nodes : Lose(n)) /\ ClocksFollow

SpecTimed == InitPair /\ [][NextTimed]_vars

\* --------------------------------------------------------------- progress
\* the two nodes, neither losing power, with a sensor task that goes on
\* firing past the counted Readings
NextRounds ==
  \/ UNCHANGED clocks /\ \E n \in Nodes : SetupCold(n)
  \/ UNCHANGED clocks /\ \E n \in Nodes : WifiPoll(n)
  \/ UNCHANGED clocks /\ \E n \in Nodes : \E o \in PairTimeOutcomes : SetupSync(n, o)
  \/ UNCHANGED clocks /\ \E n \in Nodes : \E o \in PairTimeOutcomes : SetupReuse(n, o)
  \/ UNCHANGED clocks /\ \E n \in Nodes : Wake(n)
  \/ UNCHANGED clocks /\ \E o \in PairTimeOutcomes : \E s \in RoundSamples : N1SendMessage(o, s)
  \/ UNCHANGED clocks /\ \E o \in PairTimeOutcomes : \E s \in RoundSamples : N1SendAgain(o, s)
  \/ UNCHANGED clocks /\ N1ReceivedCallback
  \/ UNCHANGED clocks /\ N2ReceivedCallback
  \/ UNCHANGED clocks /\ \E o \in PairTimeOutcomes : N2SendMessage(o)
  \/ UNCHANGED clocks /\ \E n \in Nodes : Lose(n)

\* a broadcast of node n that reaches the peer's receive queue
Delivers(n) ==
  /\ IF n = Node1
     THEN \E o \in PairTimeOutcomes : \E s \in RoundSamples :
            N1SendMessage(o, s) \/ N1SendAgain(o, s)
     ELSE \E o \in PairTimeOutcomes : N2SendMessage(o)
  /\ Len(inbox'[Peer(n)]) > Len(inbox[Peer(n)])
  /\ UNCHANGED clocks

\* boots complete (the network is reached on a cold boot), wake timers
\* expire, loop() runs the task when it is due, and a message that is
\* broadcast again and again while the peer runs the mesh gets through to
\* the peer's callback
RoundsFair ==
  /\ \A n \in Nodes :
       /\ WF_vars(SetupCold(n) /\ UNCHANGED clocks)
       /\ WF_vars((\E o \in PairTimeOutcomes : SetupSync(n, o)) /\ UNCHANGED clocks)
       /\ WF_vars((\E o \in PairTimeOutcomes : SetupReuse(n, o)) /\ UNCHANGED clocks)
       /\ WF_vars(Wake(n) /\ UNCHANGED clocks)
       /\ SF_vars(Delivers(n))
  /\ WF_vars((\E o \in PairTimeOutcomes : N2SendMessage(o)) /\ UNCHANGED clocks)
  /\ SF_vars(N1ReceivedCallback /\ UNCHANGED clocks)
  /\ SF_vars(N2ReceivedCallback /\ UNCHANGED clocks)

SpecRounds == InitPair /\ [][NextRounds]_vars /\ RoundsFair

\* Spec with the scheduling the program itself guarantees: setup() runs on,
\* the wake timer expires, loop() runs the task and the callbacks.  Whether
\* the WiFi network is ever reached (SetupSync) is up to the environment.
ProgramFair ==
  \A n \in Nodes :
    /\ WF_vars(SetupCold(n) /\ UNCHANGED clocks)
    /\ WF_vars(WifiPoll(n) /\ UNCHANGED clocks)
    /\ WF_vars((\E o \in TimeOutcomes : SetupReuse(n, o)) /\ UNCHANGED clocks)
    /\ WF_vars(Wake(n) /\ UNCHANGED clocks)

SpecNoNet == Init /\ [][Next]_vars /\ ProgramFair

TypeOK ==
  /\ pc \in [Nodes -> {"off", "boot", "wifi", "run", "asleep"}]
  /\ yettimed \in [Nodes -> BOOLEAN]
  /\ \A n \in Nodes : sent[n] \in 0..MaxSends /\ rcvd[n] \in 0..MaxRecv
  /\ InFlight(inbox) <= MaxInFlight

\* ================================================================= claims
SameClock(n) ==
  /\ hour'[n] = hour[n]
  /\ minut'[n] = minut[n]
  /\ sec'[n] = sec[n]

\* node n handed a text to mesh.sendBroadcast in this step
Stamped(n) == sent'[n] > sent[n]

\* node n finished setup() in this step
BootDone(n) == pc[n] \in {"boot", "wifi"} /\ pc'[n] \notin {"boot", "wifi"}

\* C1: for every temperature t taken from a received message the LED color
\* chosen by condition is Red if and only if t > 29, and Green otherwise.
C1_RedIffAbove29 ==
  Color # "" => (Color = "Red" <=> (~temp.nan /\ temp.v > T29))

\* C2: a message delivered to the awake sensor puts it to sleep in that same
\* receive step whatever the message is, with the broadcast task disabled,
\* and no Reading is broadcast after a receive in that wake cycle.
C2_SensorSleepsOnReceive ==
  [][ /\ rcvd'[Node1] > rcvd[Node1] =>
           /\ pc'[Node1] = "asleep"
           /\ ~taskEnabled'[Node1]
           /\ sent'[Node1] = sent[Node1]
      /\ Stamped(Node1) => rcvd[Node1] = 0 /\ rcvd'[Node1] = 0 ]_vars

C2_Witness ==
  /\ pc[Node1] = "asleep"
  /\ rcvd[Node1] = 1
  /\ sent[Node1] = 1
  /\ ~taskEnabled[Node1]

\* C3 (as stated): the sensor hands at most one Reading to the transport in
\* one wake cycle, however late the peer's response is.
C3_OneReadingPerWake == sent[Node1] <= 1

\* C3 (amended): the sensor hands one Reading to the transport each time the
\* recurring task fires, so a wake cycle has more than one Reading when the
\* response is late; every Reading is sent while the task is enabled and
\* before any message was received, and the cycle ends in one sleep
\* transition, after which nothing runs until the next boot.
C3_ReadingPerTaskRun ==
  [][ /\ Stamped(Node1) =>
           /\ sent'[Node1] = sent[Node1] + 1
           /\ taskEnabled[Node1]
           /\ rcvd[Node1] = 0
           /\ pc[Node1] = "run" /\ pc'[Node1] = "run"
      /\ pc[Node1] = "asleep" =>
           /\ pc'[Node1] \in {"asleep", "boot"}
           /\ ~Stamped(Node1) ]_vars

C3_Witness ==
  /\ pc[Node1] = "asleep"
  /\ sent[Node1] = 2
  /\ rcvd[Node1] = 1

\* C4: the actuator broadcasts at most one Decision per wake cycle, and the
\* step that broadcasts it is the step that enters deep sleep, however many
\* messages were received before.
C4_ActuatorSendIsSleep ==
  [][ Stamped(Node2) =>
        /\ sent[Node2] = 0 /\ sent'[Node2] = 1
        /\ rcvd'[Node2] = rcvd[Node2]
        /\ pc[Node2] = "run" /\ pc'[Node2] = "asleep"
        /\ ~taskEnabled'[Node2] ]_vars

C4_Witness ==
  /\ pc[Node2] = "asleep"
  /\ sent[Node2] = 1
  /\ rcvd[Node2] = 2

\* C5: the actuator's broadcast task is disabled at every boot and stays so
\* until a message is received; no Decision is broadcast in a wake cycle
\* before a message was received in that cycle.
C5_ListenBeforeSend ==
  /\ pc[Node2] \in {"boot", "wifi"} => ~taskEnabled[Node2]
  /\ (pc[Node2] = "run" /\ rcvd[Node2] = 0) => ~taskEnabled[Node2]
  /\ sent[Node2] > 0 => rcvd[Node2] > 0

C5_Witness ==
  /\ pc[Node2] = "asleep"
  /\ wokeFromSleep[Node2]
  /\ sent[Node2] = 1
  /\ rcvd[Node2] = 1

\* C6: when time acquisition failed in a cycle that booted from power-on
\* (yettimed false), yettimed is still false when the node goes to sleep and
\* boots next, so that the next cycle tries the network again.
C6_FailedSyncStaysUnsynced ==
  \A n \in Nodes :
    (pc[n] = "asleep" /\ ~wokeFromSleep[n] /\ ~timeinfo[n].ok /\ hour[n] = "")
      => ~yettimed[n]

\* C7 (as stated): once the network sync in setup() succeeded, yettimed is
\* true in every following state, also before the node sleeps.
C7_SyncedRightAfterSync ==
  \A n \in Nodes :
    (pc[n] = "run" /\ ~wokeFromSleep[n] /\ sent[n] = 0 /\ timeinfo[n].ok)
      => yettimed[n]

\* C7 (amended): a successful network sync in setup() sets hour, minut and
\* sec to the acquired time and leaves yettimed false; yettimed is set only by
\* the step that enters deep sleep and is cleared only by a power loss.
C7_SyncSetsFieldsFlagAtSleep ==
  [][ \A n \in Nodes :
        /\ (pc[n] = "wifi" /\ BootDone(n) /\ timeinfo'[n].ok) =>
             /\ hour'[n] = Strftime2(timeinfo'[n].tm[1])
             /\ minut'[n] = Strftime2(timeinfo'[n].tm[2])
             /\ sec'[n] = Strftime2(timeinfo'[n].tm[3])
             /\ ~yettimed'[n]
        /\ (~yettimed[n] /\ yettimed'[n]) =>
             pc[n] = "run" /\ pc'[n] = "asleep"
        /\ (yettimed[n] /\ ~yettimed'[n]) =>
             pc'[n] = "boot" /\ ~wokeFromSleep'[n] ]_vars

C7_Witness ==
  /\ pc[Node1] = "run"
  /\ ~wokeFromSleep[Node1]
  /\ sent[Node1] = 0
  /\ timeinfo[Node1].ok
  /\ hour[Node1] = "09" /\ minut[Node1] = "15" /\ sec[Node1] = "42"
  /\ ~yettimed[Node1]

\* C8 (as stated): in a wake cycle that boots with yettimed true and a
\* persisted time, the WiFi path is not taken and hour, minut and sec keep
\* the values they had at wake through setup() and every stamping.
C8_ClockKeptWhileSynced ==
  [][ \A n \in Nodes :
        /\ yettimed[n] => pc'[n] # "wifi"
        /\ (yettimed[n] /\ yettimed'[n] /\ hour[n] # "") => SameClock(n) ]_vars

\* C8 (amended): in a wake cycle that boots with yettimed true the WiFi path
\* is not taken, but printLocalTime still runs in setup() and at every
\* stamping and overwrites hour, minut and sec whenever it obtains a time;
\* every broadcast message carries the fields as they stand after that call.
C8_NoWifiStampIsCurrentClock ==
  [][ \A n \in Nodes :
        /\ yettimed[n] => pc'[n] # "wifi"
        /\ Stamped(n) =>
             /\ Len(readings'[n]) = 1
             /\ readings'[n][1].hour = hour'[n]
             /\ readings'[n][1].min = minut'[n]
             /\ readings'[n][1].sec = sec'[n]
        /\ (~SameClock(n) /\ pc'[n] # "boot") =>
             /\ BootDone(n) \/ Stamped(n)
             /\ timeinfo'[n].ok
             /\ hour'[n] = Strftime2(timeinfo'[n].tm[1]) ]_vars

C8_Witness ==
  /\ pc[Node1] = "run"
  /\ wokeFromSleep[Node1]
  /\ yettimed[Node1]
  /\ sent[Node1] = 1
  /\ timeinfo[Node1].ok
  /\ readings[Node1][1].hour = "14"
  /\ hour[Node1] = "14"

\* C9: when printLocalTime fails, in setup() or while stamping a message,
\* hour, minut and sec keep their values, setup() still goes on to start the
\* mesh, and the message is stamped with the last-known values.
C9_FailedTimeKeepsClock ==
  [][ \A n \in Nodes :
        ((BootDone(n) \/ Stamped(n)) /\ ~timeinfo'[n].ok) =>
          /\ SameClock(n)
          /\ BootDone(n) => pc'[n] = "run" /\ wakeTimer'[n] > 0
          /\ Stamped(n) =>
               /\ readings'[n][1].hour = hour[n]
               /\ readings'[n][1].min = minut[n]
               /\ readings'[n][1].sec = sec[n] ]_vars

C9_Witness ==
  /\ pc[Node1] = "run"
  /\ sent[Node1] = 1
  /\ ~timeinfo[Node1].ok
  /\ hour[Node1] = "09"
  /\ readings[Node1][1].hour = "09"
  /\ readings[Node1][1].sec = "42"

\* C10: every step that enters deep sleep has set yettimed, so a boot that
\* is a wake from deep sleep finds yettimed true and skips the WiFi branch.
C10_WakeFindsSynced ==
  \A n \in Nodes :
    /\ pc[n] = "asleep" => yettimed[n]
    /\ wokeFromSleep[n] => yettimed[n] /\ pc[n] # "wifi"

C10_Witness ==
  \E n \in Nodes :
    /\ pc[n] = "run"
    /\ wokeFromSleep[n]
    /\ yettimed[n]
    /\ rcvd[n] = 0 /\ sent[n] = 0

\* C11 (as stated): a node that entered the wait for the network on a cold
\* boot leaves it after finitely many steps also when the network is never
\* reached.
C11_BootTerminates ==
  \A n \in Nodes : (pc[n] = "wifi") ~> (pc[n] # "wifi")

\* C11 (amended): the wait for the network on a cold boot has no bound of
\* its own: an iteration of the wait loop never leaves Booting, and the node
\* leaves the wait only in the step that finds the network connected, which
\* goes on to arm the wake timer and start the mesh whether or not the time
\* was then obtained (or by a power loss, which restarts the cold boot).
C11_WaitEndsOnlyOnConnect ==
  [][ \A n \in Nodes :
        /\ (pc[n] = "wifi" /\ polls'[n] # polls[n] /\ pc'[n] # "boot") =>
             /\ pc'[n] = "wifi"
             /\ wakeTimer'[n] = 0
             /\ ~taskEnabled'[n]
        /\ (pc[n] = "wifi" /\ pc'[n] # "wifi") =>
             \/ /\ pc'[n] = "run"
                /\ polls'[n] = polls[n]
                /\ wakeTimer'[n] = TIME_TO_SLEEP_US(n)
             \/ /\ pc'[n] = "boot"
                /\ ~yettimed'[n] /\ ~wokeFromSleep'[n] ]_vars

C11_Witness ==
  \E n \in Nodes :
    /\ pc[n] = "run"
    /\ ~wokeFromSleep[n]
    /\ polls[n] = MaxWifiPolls
    /\ ~timeinfo[n].ok
    /\ sent[n] = 0 /\ rcvd[n] = 0

\* C12: a node enters deep sleep only in a wake cycle in which it received
\* a message; while nothing was received the sensor's task stays enabled and
\* the actuator's disabled, the node stays awake, and the armed wake timer
\* does not restart it: only a power loss ends such a cycle.
C12_NoTimeoutFallback ==
  [][ \A n \in Nodes :
        /\ (pc[n] # "asleep" /\ pc'[n] = "asleep") =>
             pc[n] = "run" /\ rcvd'[n] >= 1
        /\ (pc[n] = "run" /\ rcvd[n] = 0) =>
             /\ taskEnabled[n] <=> n = Node1
             /\ wakeTimer[n] > 0
             /\ \/ pc'[n] = "run" /\ wakeTimer'[n] = wakeTimer[n]
                \/ pc'[n] = "asleep" /\ rcvd'[n] = 1
                \/ pc'[n] = "boot" /\ ~wokeFromSleep'[n]
        /\ (pc[n] # "asleep" /\ pc'[n] = "boot") => ~wokeFromSleep'[n] ]_vars

C12_Witness ==
  /\ pc[Node1] = "run"
  /\ wakeTimer[Node1] = TIME_TO_SLEEP_US(Node1)
  /\ sent[Node1] = 2
  /\ rcvd[Node1] = 0
  /\ taskEnabled[Node1]

\* C13 (as stated): when the actuator receives a text without a temp key
\* (also one that is no Reading or does not parse) the decoded temp is 0,
\* the decision is Green and the role goes on: the task is enabled so that
\* the Decision is broadcast and the node sleeps.
C13_MalformedDecodesZero ==
  [][ (rcvd'[Node2] > rcvd[Node2] /\ "temp" \notin Head(inbox[Node2]).has) =>
        /\ temp' = Zero
        /\ Color' = "Green"
        /\ pc'[Node2] = "run" /\ taskEnabled'[Node2] ]_vars

\* C13 (amended): when the actuator receives a text without a temp key the
\* decoded temp is not-a-number (and so is hum when its key is absent), the
\* comparison with 29 is false, the decision is Green, the indicator is
\* driven green and the role goes on: the task is enabled so that the
\* Decision is broadcast and the node sleeps.
C13_MalformedDecodesNaN ==
  [][ (rcvd'[Node2] > rcvd[Node2] /\ "temp" \notin Head(inbox[Node2]).has) =>
        /\ temp' = NaN
        /\ "hum" \notin Head(inbox[Node2]).has => hum' = NaN
        /\ Color' = "Green" /\ led' = <<0, 255, 0>>
        /\ pc'[Node2] = "run" /\ taskEnabled'[Node2] ]_vars

C13_Witness ==
  /\ pc[Node2] = "run"
  /\ rcvd[Node2] = 1
  /\ temp = NaN /\ hum = Hum40
  /\ Color = "Green" /\ led = <<0, 255, 0>>
  /\ taskEnabled[Node2]

\* C14 (as stated): every Reading the sensor broadcasts carries the sample
\* as read, not-a-number included, and the sensor is sampled at most once in
\* a wake cycle: a sample is taken only when none was taken since the boot.
C14_SampledOncePerWake ==
  [][ Stamped(Node1) =>
        /\ readings'[Node1][1].has = ReadingKeys
        /\ <<readings'[Node1][1].temp, readings'[Node1][1].hum>> \in DhtSamples
        /\ readings[Node1] = <<>> ]_vars

\* C14 (amended): the sensor is sampled once each time the recurring task
\* fires and that sample is broadcast as read, not-a-number included; a
\* failed read is not retried within the firing, but while no message is
\* received the task fires again and samples again in the same wake cycle.
C14_SampledOncePerFiring ==
  [][ Stamped(Node1) =>
        /\ sent'[Node1] = sent[Node1] + 1
        /\ Len(readings'[Node1]) = 1
        /\ readings'[Node1][1].has = ReadingKeys
        /\ readings'[Node1][1].node = Node1
        /\ <<readings'[Node1][1].temp, readings'[Node1][1].hum>> \in DhtSamples
        /\ rcvd'[Node1] = 0 /\ pc'[Node1] = "run" ]_vars

C14_Witness ==
  /\ pc[Node1] = "run"
  /\ sent[Node1] = 2
  /\ readings[Node1] # <<>>
  /\ readings[Node1][1].temp = NaN /\ readings[Node1][1].hum = NaN

\* C15 (as stated): every broadcast message carries hour, min and sec as
\* two-character strings of digits, also on the first boot and when the time
\* could not be obtained.
C15_StampsAlwaysTwoDigits ==
  \A n \in Nodes :
    readings[n] # <<>> =>
      /\ readings[n][1].hour \in TwoDigits
      /\ readings[n][1].min \in TwoDigits
      /\ readings[n][1].sec \in TwoDigits

\* C15 (amended): every broadcast message carries the node's hour, minut and
\* sec fields, which are either all three two-character zero-padded strings
\* of digits or, as long as no time was obtained since power-on, all three
\* empty strings.
C15_StampsTwoDigitsOrEmpty ==
  \A n \in Nodes :
    /\ \/ hour[n] \in TwoDigits /\ minut[n] \in TwoDigits /\ sec[n] \in TwoDigits
       \/ hour[n] = "" /\ minut[n] = "" /\ sec[n] = "" /\ ~timeinfo[n].ok
    /\ readings[n] # <<>> =>
         /\ readings[n][1].hour = hour[n]
         /\ readings[n][1].min = minut[n]
         /\ readings[n][1].sec = sec[n]

C15_Witness ==
  /\ pc[Node2] = "asleep"
  /\ sent[Node2] = 1
  /\ readings[Node2] # <<>>
  /\ readings[Node2][1].color = "Green"
  /\ readings[Node2][1].hour = ""
  /\ readings[Node2][1].min = ""
  /\ readings[Node2][1].sec = ""

\* C17: each message the actuator receives drives the indicator to the
\* color decided for that message, Red or Green; the Decision is broadcast
\* after at least one such step, in the step that enters deep sleep, and
\* carries the color the indicator was last driven to, which is the decision
\* for the last message received.
C17_DecisionIsLastColor ==
  [][ /\ rcvd'[Node2] > rcvd[Node2] =>
           LET c == Condition(DecodeDouble(Head(inbox[Node2]), "temp"),
                              DecodeDouble(Head(inbox[Node2]), "hum"))
           IN  /\ Color' = c.Color /\ led' = c.led
               /\ Color' \in {"Red", "Green"}
               /\ led' = IF Color' = "Red" THEN <<255, 0, 0>> ELSE <<0, 255, 0>>
               /\ sent'[Node2] = 0 /\ pc'[Node2] = "run"
      /\ Stamped(Node2) =>
           /\ rcvd[Node2] >= 1
           /\ Color \in {"Red", "Green"}
           /\ led = IF Color = "Red" THEN <<255, 0, 0>> ELSE <<0, 255, 0>>
           /\ readings'[Node2][1].has = DecisionKeys
           /\ readings'[Node2][1].color = Color
           /\ pc'[Node2] = "asleep" ]_vars

C17_Witness ==
  /\ pc[Node2] = "asleep"
  /\ rcvd[Node2] = 2
  /\ sent[Node2] = 1
  /\ readings[Node2] # <<>>
  /\ readings[Node2][1].color = "Red"

\* C18: a receive callback leaves hour, minut and sec of its node as they
\* were, whatever time fields the message carries.
C18_ReceiveKeepsClock ==
  [][ \A n \in Nodes : rcvd'[n] > rcvd[n] => SameClock(n) ]_vars

C18_Witness ==
  /\ pc[Node2] = "run"
  /\ rcvd[Node2] = 1
  /\ hum = Hum40
  /\ hour[Node2] = "09" /\ minut[Node2] = "15" /\ sec[Node2] = "42"

\* C19: the wake timer is armed once in every boot, by the step of setup()
\* that goes on to start the mesh, and stays armed: it is not armed while
\* booting, it is armed with the node's sleep time whenever the node runs
\* the mesh or sleeps, so every deep sleep ends in a wake.
C19_TimerArmedBeforeMesh ==
  \A n \in Nodes :
    /\ pc[n] \in {"off", "boot", "wifi"} => wakeTimer[n] = 0
    /\ pc[n] \in {"run", "asleep"} => wakeTimer[n] = TIME_TO_SLEEP_US(n)

C19_Witness ==
  \E n \in Nodes :
    /\ pc[n] = "asleep"
    /\ wokeFromSleep[n]
    /\ wakeTimer[n] = TIME_TO_SLEEP_US(n)

\* C16 (as stated): the sensor arms 5 s and the actuator 5.1 s, and whenever
\* both sleep the actuator's timer expires strictly after the sensor's, so
\* that the sensor wakes and transmits first, whatever the latency of the
\* Decision that put the sensor to sleep.
C16_ActuatorWakesAfterSensor ==
  (pc[Node1] = "asleep" /\ pc[Node2] = "asleep") =>
    sleepLeft[Node2] > sleepLeft[Node1]

\* C16 (amended): the sensor arms 5 s and the actuator 5.1 s; when the
\* sensor is put to sleep by the Decision of the sleeping actuator, the
\* actuator's timer expires 0.1 s minus the latency of that Decision after
\* the sensor's: strictly after it only for a latency below 0.1 s, together
\* with it or before it otherwise.
C16_MarginIsTenthLessLatency ==
  [][ /\ (pc[Node1] = "run" /\ pc'[Node1] = "asleep") =>
           sleepLeft'[Node1] = 50
      /\ (pc[Node2] = "run" /\ pc'[Node2] = "asleep") =>
           sleepLeft'[Node2] = 51
      /\ (pc[Node1] = "run" /\ pc'[Node1] = "asleep" /\ pc[Node2] = "asleep") =>
           sleepLeft'[Node2] - sleepLeft'[Node1] = 1 - Head(age[Node1])
      /\ \A n \in Nodes :
           (pc[n] = "asleep" /\ pc'[n] = "boot") => sleepLeft[n] = 0 ]_vars

C16_Witness ==
  /\ pc[Node1] = "asleep" /\ pc[Node2] = "asleep"
  /\ sleepLeft[Node1] = 50
  /\ sleepLeft[Node2] = 49

\* C20: with one sensor and one actuator, boots that complete and
\* broadcasts that get through when repeated, every wake cycle of either
\* node reaches deep sleep: a node that is awake is asleep later, whatever
\* the order of wakes, broadcasts, losses and deliveries.
C20_RoundProgress ==
  \A n \in Nodes : (pc[n] # "asleep") ~> (pc[n] = "asleep")

C20_Witness ==
  /\ pc[Node1] = "asleep" /\ pc[Node2] = "asleep"
  /\ wokeFromSleep[Node1] /\ wokeFromSleep[Node2]
  /\ rcvd[Node1] = 1 /\ rcvd[Node2] = 1
  /\ sent[Node1] = MaxSends

====
